---- MODULE Spec2Model ----
(***************************************************************************)
(* Model of src/main.py: a menu loop over one sqlite3 connection.          *)
(*                                                                         *)
(* The embedded engine is modelled by what the calls of main.py make it    *)
(* do: a working copy of the three tables seen by the connection (db), the *)
(* committed content of the file (disk), and the flag of an open           *)
(* transaction (inTx).  The connection is opened with the defaults of      *)
(* sqlite3.connect: INSERT and UPDATE open a transaction implicitly, DDL   *)
(* and SELECT do not, and foreign keys are not enforced because the        *)
(* program never issues PRAGMA foreign_keys = ON.                          *)
(*                                                                         *)
(* REAL prices are modelled as exact decimals: an integer number of units  *)
(* of 10^-(2+MaxUpdates), so that price * 1.10 is exact for every update   *)
(* the bounds allow.  The rounding of IEEE-754 doubles is not modelled.    *)
(***************************************************************************)
EXTENDS Integers, Sequences, FiniteSets, TLC

\* ---------------------------------------------------------------- bounds
MaxProductBatches == 2
MaxCustomerBatches == 2
MaxOrderBatches == 1
MaxUpdates == 2

\* one cent, in price units
PriceScale == 10 ^ MaxUpdates

VARIABLES
    pc,      \* where main_menu is: "start", "setup", "awaiting_choice",
             \* "awaiting_save" or "terminated"
    conn,    \* the connection handle: "none", "open" or "closed"
    schema,  \* the tables that exist
    engine,  \* [db: the tables as the connection sees them,
             \*  disk: the committed tables, inTx: a transaction is open]
    choice,  \* the last menu line read
    reply,   \* the last answer to the save prompt
    trace,   \* what the current turn printed and called on the connection
    result,  \* what the last action printed: a row count or a query result
    hist     \* history: commits per modifying choice, the number of committed
             \* updates at each committed product batch, the row counts when
             \* the last choice was read, connections opened and closed

vars == <<pc, conn, schema, engine, choice, reply, trace, result, hist>>

\* ------------------------------------------------------------ seed data
Tables == <<"products", "customers", "orders">>

\* (name, category, price in cents)
products_to_add ==
    << <<"iPhone 15 Pro", "smartphones", 119999>>,
       <<"Samsung Galaxy S25", "smartphones", 109999>>,
       <<"MacBook Air M4", "laptops", 129900>>,
       <<"Dell XPS 15", "laptops", 189950>>,
       <<"iPad Pro", "tablets", 99900>>,
       <<"Samsung Galaxy Tab S10", "tablets", 75000>> >>

customers_to_add ==
    << <<"John", "Doe", "john.doe@example.com">>,
       <<"Jane", "Smith", "jane.smith@example.com">>,
       <<"Peter", "Jones", "peter.jones@example.com">> >>

\* (customer_id, product_id, quantity, order_date)
orders_to_add ==
    << <<1, 1, 1, "today">>,
       <<1, 3, 1, "today">>,
       <<2, 2, 2, "today">>,
       <<3, 5, 1, "today">>,
       <<2, 1, 1, "today">> >>

\* ------------------------------------------------------------ the engine
EmptyDb ==
    [products |-> <<>>, customers |-> <<>>, orders |-> <<>>,
     seq |-> [products |-> 0, customers |-> 0, orders |-> 0]]

\* sqlite3.connect is called with its defaults: no PRAGMA foreign_keys = ON
ForeignKeysEnabled == FALSE

\* the row an INSERT builds from one parameter tuple
MkRow(t, id, tup) ==
    CASE t = "products" ->
           [id |-> id, name |-> tup[1], category |-> tup[2],
            price |-> tup[3] * PriceScale]
      [] t = "customers" ->
           [id |-> id, first_name |-> tup[1], last_name |-> tup[2],
            email |-> tup[3]]
      [] t = "orders" ->
           [id |-> id, customer_id |-> tup[1], product_id |-> tup[2],
            quantity |-> tup[3], order_date |-> tup[4]]

\* email declared without UNIQUE
UniqueViolation_off(d, t, row) == FALSE

\* email TEXT NOT NULL UNIQUE
UniqueViolation(d, t, row) ==
    /\ t = "customers"
    /\ \E i \in 1..Len(d.customers) : d.customers[i].email = row.email

\* FOREIGN KEY (customer_id), FOREIGN KEY (product_id): checked only when on
ForeignKeyViolation(d, t, row) ==
    /\ ForeignKeysEnabled
    /\ t = "orders"
    /\ \/ ~ \E i \in 1..Len(d.customers) : d.customers[i].id = row.customer_id
       \/ ~ \E i \in 1..Len(d.products) : d.products[i].id = row.product_id

RECURSIVE InsertRows(_, _, _, _)
\* executemany: one INSERT per tuple, stopping at the first one that fails;
\* AUTOINCREMENT takes the id from sqlite_sequence, which is part of d
InsertRows(d, t, tups, n) ==
    IF tups = <<>> THEN [d |-> d, ok |-> TRUE, rowcount |-> n]
    ELSE LET id == d.seq[t] + 1
             row == MkRow(t, id, Head(tups))
         IN IF UniqueViolation(d, t, row) \/ ForeignKeyViolation(d, t, row)
            THEN [d |-> d, ok |-> FALSE, rowcount |-> n]
            ELSE InsertRows([d EXCEPT ![t] = Append(@, row), !.seq[t] = id],
                            t, Tail(tups), n + 1)

\* cursor.executemany(INSERT ...): a missing table fails before anything is
\* begun; otherwise the transaction is opened implicitly and stays open
executemany(e, sch, t, tups) ==
    IF t \notin sch THEN [e |-> e, ok |-> FALSE, rowcount |-> 0]
    ELSE LET r == InsertRows(e.db, t, tups, 0)
         IN [e |-> [e EXCEPT !.db = r.d, !.inTx = TRUE],
             ok |-> r.ok, rowcount |-> r.rowcount]

\* conn.commit()
commit(e) == [e EXCEPT !.disk = e.db, !.inTx = FALSE]

\* rollback that closes the transaction without restoring the tables
rollback_flag_only(e) == [e EXCEPT !.inTx = FALSE]

\* rollback that restores the tables and leaves the transaction open
rollback_keeps_open(e) == [e EXCEPT !.db = e.disk]

\* conn.rollback()
rollback(e) == [e EXCEPT !.db = e.disk, !.inTx = FALSE]

\* price * 1.20
TimesOnePointTwo(p) == (p * 12) \div 10

\* price * 1.10 on an exact decimal
TimesOnePointOne(p) == (p * 11) \div 10

\* the rows UPDATE ... WHERE category = 'smartphones' matches
IsSmartphone(row) == row.category = "smartphones"

\* cursor.execute(UPDATE products SET price = price * 1.10 WHERE ...)
execute_update(e, sch) ==
    IF "products" \notin sch THEN [e |-> e, ok |-> FALSE, rowcount |-> 0]
    ELSE LET old == e.db.products
             new == [i \in 1..Len(old) |->
                       IF IsSmartphone(old[i])
                       THEN [old[i] EXCEPT !.price = TimesOnePointOne(@)]
                       ELSE old[i]]
         IN [e |-> [e EXCEPT !.db.products = new, !.inTx = TRUE],
             ok |-> TRUE,
             rowcount |-> Cardinality({i \in 1..Len(old) : IsSmartphone(old[i])})]

\* -------------------------------------------------------------- queries
\* SQL NULL is the empty sequence, a value v is <<v>>
NULL == <<>>

\* orders o JOIN products p ON o.product_id = p.id, as pairs of positions
OrderProductJoin(d) ==
    {ij \in (1..Len(d.orders)) \X (1..Len(d.products)) :
        d.orders[ij[1]].product_id = d.products[ij[2]].id}

\* p.price alone, the quantity left out
LineTotal_no_quantity(d, ij) == d.products[ij[2]].price

\* p.price * o.quantity of one joined row
LineTotal(d, ij) == d.products[ij[2]].price * d.orders[ij[1]].quantity

RECURSIVE SumLines(_, _)
SumLines(d, S) ==
    IF S = {} THEN 0
    ELSE LET ij == CHOOSE x \in S : TRUE
         IN LineTotal(d, ij) + SumLines(d, S \ {ij})

\* total sales as a grouped query: no row over no joined rows
total_sales_query_grouped(d) ==
    LET J == OrderProductJoin(d)
    IN IF J = {} THEN {} ELSE {[total_sales |-> <<SumLines(d, J)>>]}

\* SELECT SUM(p.price * o.quantity) AS total_sales FROM orders o JOIN ...
\* an aggregate without GROUP BY: always one row, NULL over no rows
total_sales_query(d) ==
    LET J == OrderProductJoin(d)
    IN {[total_sales |-> IF J = {} THEN NULL ELSE <<SumLines(d, J)>>]}

RECURSIVE SumOrders(_, _, _)
SumOrders(d, J, O) ==
    IF O = {} THEN 0
    ELSE LET o == CHOOSE x \in O : TRUE
         IN SumLines(d, {ij \in J : ij[1] = o}) + SumOrders(d, J, O \ {o})

\* SELECT AVG(order_total) FROM (SELECT SUM(...) ... GROUP BY o.id)
\* the average is the exact fraction num / den
average_order_value_query(d) ==
    LET J == OrderProductJoin(d)
        O == {ij[1] : ij \in J}
    IN {[average_order_value |->
           IF O = {} THEN NULL
           ELSE <<[num |-> SumOrders(d, J, O), den |-> Cardinality(O)]>>]}

\* SELECT c.first_name, c.last_name, COUNT(o.id) FROM customers c
\* INNER JOIN orders o ON c.id = o.customer_id GROUP BY c.id
orders_per_customer_query(d) ==
    LET cnt(i) == Cardinality({j \in 1..Len(d.orders) :
                                 d.orders[j].customer_id = d.customers[i].id})
    IN {[first_name |-> d.customers[i].first_name,
         last_name |-> d.customers[i].last_name,
         order_count |-> cnt(i)] :
          i \in {k \in 1..Len(d.customers) : cnt(k) > 0}}

\* the groups of products p JOIN orders o ... GROUP BY p.category
CategoryCounts(d) ==
    LET J == OrderProductJoin(d)
        cats == {d.products[ij[2]].category : ij \in J}
    IN {[category |-> c,
         orders_in_category |->
            Cardinality({ij \in J : d.products[ij[2]].category = c})] :
          c \in cats}

\* ... ORDER BY orders_in_category DESC LIMIT 1: every row the engine may
\* return first; the order among equal counts is not defined by the query
most_popular_category_rows(d) ==
    LET G == CategoryCounts(d)
    IN {g \in G : \A h \in G : h.orders_in_category <= g.orders_in_category}

\* SELECT category, COUNT(id) FROM products GROUP BY category
products_per_category_query(d) ==
    LET cats == {d.products[i].category : i \in 1..Len(d.products)}
    IN {[category |-> c,
         product_count |->
            Cardinality({i \in 1..Len(d.products) : d.products[i].category = c})] :
          c \in cats}

\* the tables each report reads; a missing one makes execute raise
QueryTables(c) ==
    CASE c = "4" -> {"orders", "products"}
      [] c = "5" -> {"customers", "orders"}
      [] c = "6" -> {"orders", "products"}
      [] c = "7" -> {"products", "orders"}
      [] c = "8" -> {"products"}

\* execute_and_print after cursor.execute: what is printed and shown
\* ok = FALSE is the except branch; rows is the set fetchall returns
execute_and_print(ok, rows) ==
    IF ~ok THEN [kind |-> "error", rows |-> {}, rowcount |-> 0]
    ELSE IF rows = {} THEN [kind |-> "no_results", rows |-> {}, rowcount |-> 0]
    ELSE [kind |-> "table", rows |-> rows, rowcount |-> 0]

NoResult == [kind |-> "none", rows |-> {}, rowcount |-> 0]

RowCount(n) == [kind |-> "rowcount", rows |-> {}, rowcount |-> n]

\* ---------------------------------------------------- the menu's actions
\* each yields the engine after the call, whether a sqlite3.Error left the
\* function (raised), and what the function printed (result)
\* a seeding function that swallows the error as execute_and_print does
Seeded_swallow(r) ==
    [e |-> r.e, raised |-> FALSE,
     result |-> IF r.ok THEN RowCount(r.rowcount) ELSE NoResult]

Seeded(r) ==
    [e |-> r.e, raised |-> ~r.ok,
     result |-> IF r.ok THEN RowCount(r.rowcount) ELSE NoResult]

add_products(e, sch) == Seeded(executemany(e, sch, "products", products_to_add))

add_customers(e, sch) == Seeded(executemany(e, sch, "customers", customers_to_add))

add_orders(e, sch) == Seeded(executemany(e, sch, "orders", orders_to_add))

update_smartphone_prices(e, sch) == Seeded(execute_update(e, sch))

\* the reports never raise: execute_and_print catches sqlite3.Error itself
Report(e, sch, c, rows) ==
    [e |-> e, raised |-> FALSE,
     result |-> execute_and_print(QueryTables(c) \subseteq sch, rows)]

get_total_sales(e, sch) == Report(e, sch, "4", total_sales_query(e.db))

get_orders_per_customer(e, sch) ==
    Report(e, sch, "5", orders_per_customer_query(e.db))

get_average_order_value(e, sch) ==
    Report(e, sch, "6", average_order_value_query(e.db))

\* row is the one row LIMIT 1 lets through, when there is any
get_most_popular_category(e, sch, row) == Report(e, sch, "7", row)

get_products_per_category(e, sch) ==
    Report(e, sch, "8", products_per_category_query(e.db))

\* ------------------------------------------------------------ main_menu
Choices == {"0", "1", "2", "3", "4", "5", "6", "7", "8", "9", "10", "x", ""}

Replies == {"y", "Y", "n", "N", "yes", ""}

\* the keys of the actions dictionary
ActionKeys == {"1", "2", "3", "4", "5", "6", "7", "8", "9"}

\* the list of modifying choices without '9'
is_modification_no9(c) == c \in {"1", "2", "3"}

\* choice in ['1', '2', '3', '9']
is_modification(c) == c \in {"1", "2", "3", "9"}

\* leaving the loop on an empty line as well
IsExit_or_blank(c) == c \in {"0", ""}

\* choice == '0'
IsExit(c) == c = "0"

\* str.lower on the replies
lower(r) ==
    CASE r = "Y" -> "y"
      [] r = "N" -> "n"
      [] OTHER -> r

\* save_choice == 'y'
IsYes(r) == lower(r) = "y"

\* row counts of the three tables as the connection sees them
Counts(d) ==
    [products |-> Len(d.products), customers |-> Len(d.customers),
     orders |-> Len(d.orders)]

Init ==
    /\ pc = "start"
    /\ conn = "none"
    /\ schema = {}
    /\ engine = [db |-> EmptyDb, disk |-> EmptyDb, inTx |-> FALSE]
    /\ choice = "-"
    /\ reply = "-"
    /\ trace = <<>>
    /\ result = NoResult
    /\ hist = [commits |-> [c \in {"1", "2", "3", "9"} |-> 0],
               born |-> <<>>,
               before |-> Counts(EmptyDb),
               opens |-> 0, closes |-> 0]

\* conn = create_connection(); if not conn: return
create_connection ==
    /\ pc = "start"
    /\ \E ok \in BOOLEAN :
         IF ok
         THEN /\ conn' = "open"
              /\ pc' = "setup"
              /\ trace' = <<"connected">>
              /\ hist' = [hist EXCEPT !.opens = @ + 1]
         ELSE /\ conn' = "none"
              /\ pc' = "terminated"
              /\ trace' = <<"error">>
              /\ hist' = hist
    /\ UNCHANGED <<schema, engine, choice, reply, result>>

\* setup_database: n of the three CREATE TABLE statements succeed; each one
\* that does is in effect at once, DDL opening no transaction
setup_database ==
    /\ pc = "setup"
    /\ \E n \in 0..3 :
         /\ schema' = {Tables[i] : i \in 1..n}
         /\ IF n = 3
            THEN /\ engine' = commit(engine)
                 /\ trace' = <<"commit", "setup_complete">>
            ELSE /\ engine' = rollback(engine)
                 /\ trace' = <<"error", "rollback">>
    /\ pc' = "awaiting_choice"
    /\ UNCHANGED <<conn, choice, reply, result, hist>>

\* the body of the loop for a key of the actions dictionary, f being what
\* func(conn) did
Dispatch(c, f) ==
    /\ pc = "awaiting_choice"
    /\ choice' = c
    /\ result' = f.result
    /\ hist' = [hist EXCEPT !.before = Counts(engine.db)]
    /\ IF f.raised
       THEN /\ engine' = rollback(f.e)
            /\ trace' = <<"executing", "error", "rollback">>
            /\ pc' = "awaiting_choice"
       ELSE IF is_modification(c)
       THEN /\ engine' = f.e
            /\ trace' = <<"executing", f.result.kind, "save_prompt">>
            /\ pc' = "awaiting_save"
       ELSE /\ engine' = f.e
            /\ trace' = <<"executing", f.result.kind>>
            /\ pc' = "awaiting_choice"
    /\ UNCHANGED <<conn, schema, reply>>

ChooseAddProducts ==
    /\ hist.commits["1"] < MaxProductBatches
    /\ Dispatch("1", add_products(engine, schema))

ChooseAddCustomers ==
    /\ hist.commits["2"] < MaxCustomerBatches
    /\ Dispatch("2", add_customers(engine, schema))

ChooseAddOrders ==
    /\ hist.commits["3"] < MaxOrderBatches
    /\ Dispatch("3", add_orders(engine, schema))

ChooseTotalSales == Dispatch("4", get_total_sales(engine, schema))

ChooseOrdersPerCustomer == Dispatch("5", get_orders_per_customer(engine, schema))

ChooseAverageOrderValue == Dispatch("6", get_average_order_value(engine, schema))

ChooseMostPopularCategory ==
    LET R == most_popular_category_rows(engine.db)
    IN IF R = {}
       THEN Dispatch("7", get_most_popular_category(engine, schema, {}))
       ELSE \E g \in R :
              Dispatch("7", get_most_popular_category(engine, schema, {g}))

ChooseProductsPerCategory ==
    Dispatch("8", get_products_per_category(engine, schema))

ChooseUpdateSmartphonePrices ==
    /\ hist.commits["9"] < MaxUpdates
    /\ Dispatch("9", update_smartphone_prices(engine, schema))

\* save_choice = input(...).lower(); commit on 'y', rollback otherwise
SaveReply ==
    /\ pc = "awaiting_save"
    /\ \E r \in Replies :
         /\ reply' = r
         /\ IF IsYes(r)
            THEN /\ engine' = commit(engine)
                 /\ trace' = trace \o <<"commit", "saved">>
                 /\ hist' = [hist EXCEPT
                               !.commits[choice] = @ + 1,
                               !.born = IF choice = "1"
                                        THEN Append(@, hist.commits["9"])
                                        ELSE @]
            ELSE /\ engine' = rollback(engine)
                 /\ trace' = trace \o <<"rollback", "rolled_back">>
                 /\ hist' = hist
    /\ pc' = "awaiting_choice"
    /\ UNCHANGED <<conn, schema, choice, result>>

\* actions.get(choice) is None: "Invalid choice, please try again."
InvalidChoice ==
    /\ pc = "awaiting_choice"
    /\ \E c \in Choices :
         /\ ~IsExit(c)
         /\ c \notin ActionKeys
         /\ choice' = c
    /\ trace' = <<"invalid_choice">>
    /\ result' = NoResult
    /\ hist' = [hist EXCEPT !.before = Counts(engine.db)]
    /\ UNCHANGED <<pc, conn, schema, engine, reply>>

\* choice == '0': break; conn.close()
Exit ==
    /\ pc = "awaiting_choice"
    /\ \E c \in Choices :
         /\ IsExit(c)
         /\ choice' = c
    /\ conn' = "closed"
    /\ pc' = "terminated"
    /\ trace' = <<"close">>
    /\ hist' = [hist EXCEPT !.closes = @ + 1]
    /\ UNCHANGED <<schema, engine, reply, result>>

Next ==
    \/ create_connection
    \/ setup_database
    \/ ChooseAddProducts
    \/ ChooseAddCustomers
    \/ ChooseAddOrders
    \/ ChooseTotalSales
    \/ ChooseOrdersPerCustomer
    \/ ChooseAverageOrderValue
    \/ ChooseMostPopularCategory
    \/ ChooseProductsPerCategory
    \/ ChooseUpdateSmartphonePrices
    \/ SaveReply
    \/ InvalidChoice
    \/ Exit

Spec == Init /\ [][Next]_vars

\* ------------------------------------------------------------ properties
\* the turn went through the save prompt
Prompted == Len(trace) >= 3 /\ trace[3] = "save_prompt"

\* the last thing the loop did was to run the action of key c
JustRan(c) ==
    /\ choice = c
    /\ Len(trace) >= 1
    /\ trace[1] = "executing"

\* the statement of key c raises in the state it is started in
WillFail(c) ==
    CASE c = "1" -> "products" \notin schema
      [] c = "2" -> \/ "customers" \notin schema
                    \/ \E i \in 1..Len(engine.db.customers) :
                         \E j \in 1..Len(customers_to_add) :
                           engine.db.customers[i].email = customers_to_add[j][3]
      [] c = "3" -> "orders" \notin schema
      [] c = "4" -> ~ ({"orders", "products"} \subseteq schema)
      [] c = "5" -> ~ ({"orders", "customers"} \subseteq schema)
      [] c = "6" -> ~ ({"orders", "products"} \subseteq schema)
      [] c = "7" -> ~ ({"orders", "products"} \subseteq schema)
      [] c = "8" -> "products" \notin schema
      [] c = "9" -> "products" \notin schema
      [] OTHER -> FALSE

\* C1: after a mutating action whose save prompt is answered with anything
\* but 'y' or 'Y', the loop is back at awaiting-choice with the row counts of
\* products, customers and orders as they were before the action was chosen.
C1_RollbackKeepsRowCounts ==
    (pc = "awaiting_choice" /\ Prompted /\ reply \notin {"y", "Y"})
        => /\ Counts(engine.db) = hist.before
           /\ Counts(engine.disk) = hist.before

C1_Witness ==
    /\ pc = "awaiting_choice"
    /\ Prompted
    /\ reply = "N"
    /\ choice = "3"
    /\ result = RowCount(5)
    /\ hist.before = [products |-> 6, customers |-> 3, orders |-> 0]
    /\ Counts(engine.db) = hist.before

\* C2: every row of orders references a customer id present in customers
\* and a product id present in products.
C2_OrdersReferenceExistingRows ==
    \A i \in 1..Len(engine.disk.orders) :
        /\ \E j \in 1..Len(engine.disk.customers) :
             engine.disk.customers[j].id = engine.disk.orders[i].customer_id
        /\ \E j \in 1..Len(engine.disk.products) :
             engine.disk.products[j].id = engine.disk.orders[i].product_id

\* C3 as stated: whichever of the nine actions printed an engine error, an
\* explicit rollback follows it.
C3_EveryErrorIsRolledBack ==
    \A c \in ActionKeys :
        (JustRan(c) /\ Len(trace) >= 2 /\ trace[2] = "error")
            => trace = <<"executing", "error", "rollback">>

\* C3 amended: an action whose statement raises prints the error and returns
\* to awaiting-choice without the save prompt, the connection still open and
\* no transaction open; a mutating action does so through an explicit
\* rollback, a report prints the error itself and no rollback is made.
C3_ErrorReturnsToMenu ==
    [][\A c \in ActionKeys :
         (pc = "awaiting_choice" /\ choice' = c /\ WillFail(c))
            => /\ pc' = "awaiting_choice"
               /\ conn' = "open"
               /\ ~engine'.inTx
               /\ engine'.db = engine.db
               /\ engine'.disk = engine.disk
               /\ trace' = IF c \in {"1", "2", "3", "9"}
                           THEN <<"executing", "error", "rollback">>
                           ELSE <<"executing", "error">>]_vars

C3_Witness ==
    /\ pc = "awaiting_choice"
    /\ choice = "2"
    /\ trace = <<"executing", "error", "rollback">>
    /\ Len(engine.db.customers) = 3
    /\ schema = {"products", "customers", "orders"}

\* C4: no two customer rows share an email; add-customers started when
\* customers already holds rows fails, inserts nothing and skips the save
\* prompt; at awaiting-choice customers holds 0 or 3 rows.
C4_CustomersUnique ==
    /\ \A i, j \in 1..Len(engine.db.customers) :
          engine.db.customers[i].email = engine.db.customers[j].email => i = j
    /\ pc = "awaiting_choice" => Len(engine.db.customers) \in {0, 3}
    /\ Len(engine.disk.customers) \in {0, 3}
    /\ (JustRan("2") /\ hist.before.customers > 0)
          => /\ trace = <<"executing", "error", "rollback">>
             /\ pc = "awaiting_choice"
             /\ Len(engine.db.customers) = 3
             /\ Len(engine.disk.customers) = 3

C4_Witness ==
    /\ JustRan("2")
    /\ hist.before.customers = 3
    /\ hist.commits["2"] = 1
    /\ Len(engine.disk.customers) = 3
    /\ pc = "awaiting_choice"

\* C5: the loop goes to awaiting-save-confirmation exactly when one of
\* '1', '2', '3', '9' has run without error, and from nowhere else; after a
\* report '4'..'8' or an unrecognised input it is back at awaiting-choice with
\* no save prompt, no commit, no rollback and the tables as they were.
C5_SavePromptOnlyAfterModification ==
    [][/\ (pc' = "awaiting_save" /\ pc # "awaiting_save")
            => pc = "awaiting_choice"
       /\ pc = "awaiting_choice"
            => /\ pc' = "awaiting_save"
                   <=> (choice' \in {"1", "2", "3", "9"} /\ ~WillFail(choice'))
               /\ pc' = "awaiting_save"
                   => trace'[Len(trace')] = "save_prompt"
               /\ choice' \notin {"0", "1", "2", "3", "9"}
                   => /\ pc' = "awaiting_choice"
                      /\ engine' = engine
                      /\ schema' = schema
                      /\ \A k \in 1..Len(trace') :
                           trace'[k] \notin {"save_prompt", "commit", "rollback"}]_vars

C5_Witness ==
    /\ pc = "awaiting_save"
    /\ choice = "9"
    /\ result = RowCount(2)
    /\ engine.inTx

\* the price seeded as cents after k updates by 10%, in price units
Compounded(cents, k) == cents * (11 ^ k) * (10 ^ (MaxUpdates - k))

\* C6: a committed smartphone row holds its seeded price times 1.10^k, k
\* being the number of updates committed with 'y' since the row's batch was
\* committed; every other committed product row holds its seeded price.
C6_UpdateCompounds ==
    /\ Len(engine.disk.products) = 6 * Len(hist.born)
    /\ \A i \in 1..Len(engine.disk.products) :
         LET row == engine.disk.products[i]
             seed == products_to_add[((i - 1) % 6) + 1]
             k == hist.commits["9"] - hist.born[((i - 1) \div 6) + 1]
         IN /\ row.category = seed[2]
            /\ row.price = IF seed[2] = "smartphones"
                           THEN Compounded(seed[3], k)
                           ELSE seed[3] * PriceScale

C6_Witness ==
    /\ pc = "awaiting_choice"
    /\ hist.born = <<0>>
    /\ hist.commits["9"] = 2
    /\ engine.disk.products[1].price = 119999 * 121 * (10 ^ (MaxUpdates - 2))
    /\ engine.disk.products[3].price = 129900 * PriceScale

C9_NoOpenTransactionAtMenu ==
    pc = "awaiting_choice" => (~engine.inTx /\ engine.db = engine.disk)

C9_Witness ==
    /\ pc = "awaiting_choice"
    /\ Prompted
    /\ reply = "n"
    /\ choice = "9"
    /\ hist.commits["9"] = 1
    /\ Len(engine.disk.products) = 6
    /\ ~engine.inTx

\* C10 as stated: total sales and average order value print a one-row table
\* in every reachable state.
C10_AggregatesAlwaysPrintOneRow ==
    \A c \in {"4", "6"} :
        JustRan(c) => (result.kind = "table" /\ Cardinality(result.rows) = 1)

\* the report of key c has no row to return
EmptyInput(c) ==
    CASE c = "5" -> ~ \E i \in 1..Len(engine.db.customers) :
                        \E j \in 1..Len(engine.db.orders) :
                          engine.db.orders[j].customer_id = engine.db.customers[i].id
      [] c = "7" -> ~ \E i \in 1..Len(engine.db.products) :
                        \E j \in 1..Len(engine.db.orders) :
                          engine.db.orders[j].product_id = engine.db.products[i].id
      [] c = "8" -> engine.db.products = <<>>
      [] OTHER -> FALSE

\* C10 amended: a report whose table is missing prints the error; otherwise
\* it prints the no-results message exactly when the query returns no row.
\* The three grouped reports return no row exactly when their joined input is
\* empty; total sales and average order value return one row whenever they
\* execute (NULL when no order joins a product) and never print no-results.
C10_NoResultsIffNoRows ==
    \A c \in {"4", "5", "6", "7", "8"} :
        JustRan(c) =>
            /\ result.kind = "error" <=> WillFail(c)
            /\ result.kind = "no_results" <=> (~WillFail(c) /\ EmptyInput(c))
            /\ result.kind = "table" <=> result.rows # {}
            /\ result.kind \in {"error", "no_results", "table"}
            /\ (c \in {"4", "6"} /\ ~WillFail(c))
                  => /\ result.kind = "table"
                     /\ Cardinality(result.rows) = 1
                     /\ \A r \in result.rows :
                          LET v == IF c = "4" THEN r.total_sales
                                   ELSE r.average_order_value
                          IN v = NULL <=> EmptyInput("7")

C10_Witness ==
    /\ JustRan("4")
    /\ result.kind = "table"
    /\ result.rows = {[total_sales |-> NULL]}
    /\ Len(engine.db.orders) = 5
    /\ engine.db.products = <<>>

====
